---- MODULE Spec2Model ----
(***************************************************************************)
(* Model of surrealdb core: sql/datetime.rs (Datetime arithmetic, to_u64,  *)
(* revisioned encoding) and cnf/mod.rs (lazily resolved resource limits).  *)
(*                                                                         *)
(* 64-bit and wider quantities are kept exact.  An integer n is held as a  *)
(* triple <<h, m, l>> with n = h*10^18 + m*10^9 + l and 0 <= m, l < 10^9   *)
(* (h carries the sign).  For an instant counted in nanoseconds since the  *)
(* Unix epoch, h*10^9 + m is chrono's timestamp() in seconds and l is      *)
(* timestamp_subsec_nanos().                                               *)
(***************************************************************************)
EXTENDS Integers, Sequences, FiniteSets, TLC

VARIABLES
    \* ---- sql/datetime.rs: one evaluation of the operators on (a, b)
    a, b,           \* the two Datetime operands
    subRes,         \* result of a - b            (NotCalled before the call)
    trySubRes,      \* result of a.try_sub(b)     (NotCalled before the call)
    u64Res,         \* result of a.to_u64()       (NotCalled before the call)
    \* ---- cnf/mod.rs: one run of a limit's initializer closure
    rlim, rtext,    \* the limit and the state of its environment variable
    rout,           \* outcome of the closure     (NotCalled before the call)
    \* ---- cnf/mod.rs: the process-wide LazyLock statics under threads
    env,            \* environment: variable name -> its state
    cell,           \* LazyLock state of each limit
    thr,            \* per thread: pc and the limit being dereferenced
    seen,           \* per thread, per limit: last value a deref returned
    initRuns,       \* per limit: how many times the initializer ran
    envReads,       \* per variable name: how many times it was read
    snap,           \* per limit: what its initializer read, and after how
                    \* many changes of the environment
    envOps,         \* number of environment mutations so far
    derefs,         \* number of derefs started so far
    \* ---- revisioned decoding of an encoded Datetime
    wire,           \* the encoded bytes handed to the decoder
    decRes,         \* result of decoding         (NotCalled before the call)
    consumed        \* number of bytes the decoder has read

vars == <<a, b, subRes, trySubRes, u64Res, rlim, rtext, rout,
          env, cell, thr, seen, initRuns, envReads, snap, envOps, derefs,
          wire, decRes, consumed>>

dtVars    == <<a, b, subRes, trySubRes, u64Res>>
resVars   == <<rlim, rtext, rout>>
cnfVars   == <<env, cell, thr, seen, initRuns, envReads, snap, envOps, derefs>>
codecVars == <<wire, decRes, consumed>>

\* what the operations of one part leave alone: the other parts
notDt    == <<resVars, cnfVars, codecVars>>
notRes   == <<dtVars, cnfVars, codecVars>>
notCnf   == <<dtVars, resVars, codecVars>>
notCodec == <<dtVars, resVars, cnfVars>>

(***************************************************************************)
(* Exact integer arithmetic on <<h, m, l>> triples.                        *)
(***************************************************************************)
B == 10^9

Norm(h, m, l) ==
    LET m1 == m + (l \div B)
    IN  <<h + (m1 \div B), m1 % B, l % B>>

N(x) == Norm(0, 0, x)

Add(x, y) == Norm(x[1] + y[1], x[2] + y[2], x[3] + y[3])

Minus(x, y) == Norm(x[1] - y[1], x[2] - y[2], x[3] - y[3])

Lt(x, y) ==
    \/ x[1] < y[1]
    \/ x[1] = y[1] /\ x[2] < y[2]
    \/ x[1] = y[1] /\ x[2] = y[2] /\ x[3] < y[3]

Le(x, y) == x = y \/ Lt(x, y)

Zero == <<0, 0, 0>>

\* x + x, with x evaluated once
Double(x) == CHOOSE r \in {Add(v, v) : v \in {x}} : TRUE

Mul10(x) == Add(Double(Double(Double(x))), Double(x))

\* integer type limits of the target (usize is 64 bits wide)
I64_MIN == <<-10, 776627963, 145224192>>    \* -9223372036854775808
I64_MAX == <<9, 223372036, 854775807>>      \*  9223372036854775807
U64_MAX == <<18, 446744073, 709551615>>     \* 18446744073709551615
U32_MAX == <<0, 4, 294967295>>              \*           4294967295
TWO64   == Add(U64_MAX, N(1))

(***************************************************************************)
(* sql/datetime.rs                                                         *)
(***************************************************************************)
\* DateTime::<Utc>::MIN_UTC = -262143-01-01T00:00:00Z
MIN_UTC == <<-8335, 398684800, 0>>
\* DateTime::<Utc>::MAX_UTC = +262142-12-31T23:59:59.999999999Z
MAX_UTC == <<8210, 266876799, 999999999>>

\* chrono: DateTime - DateTime = signed TimeDelta, exact over the whole range
signed_duration_since(x, y) == Minus(x, y)

\* chrono TimeDelta::to_std: a negative delta is OutOfRangeError
to_std(d) ==
    IF d[1] < 0 THEN [ok |-> FALSE, err |-> "OutOfRangeError"]
                ELSE [ok |-> TRUE, val |-> d]

\* Duration::default(): the zero duration
DurationDefault == Zero

\* chrono SecondsFormat::AutoSi: 0, 3, 6 or 9 fractional digits
AutoSi(frac) ==
    IF frac = 0 THEN 0
    ELSE IF frac % 1000000 = 0 THEN 3
    ELSE IF frac % 1000 = 0 THEN 6
    ELSE 9

\* Datetime::to_raw: RFC 3339 text with the UTC designator "Z"; the calendar
\* fields are a function of the whole seconds <<h, m>>, carried as such
to_raw(x) == [secs |-> <<x[1], x[2]>>, digits |-> AutoSi(x[3]),
              frac |-> x[3], zone |-> "Z"]

\* impl Display: write!(f, "d{}", &QuoteStr(&self.to_raw()))
Display(x) == <<"d", [quoted |-> to_raw(x)]>>

\* sub with the operands of the difference exchanged
sub_exchanged(x, y) ==
    LET r == to_std(signed_duration_since(y, x))
    IN  IF r.ok THEN r.val ELSE DurationDefault

\* impl ops::Sub<Self> for Datetime
sub(x, y) ==
    LET r == to_std(signed_duration_since(x, y))
    IN  IF r.ok THEN r.val ELSE DurationDefault

\* try_sub whose message renders the operands in the other order
try_sub_message_exchanged(x, y) ==
    LET r == to_std(signed_duration_since(x, y))
    IN  IF r.ok
        THEN [ok |-> TRUE, val |-> r.val]
        ELSE [ok |-> FALSE, err |-> "ArithmeticNegativeOverflow",
              msg |-> <<Display(y), " - ", Display(x)>>]

\* impl TrySub for Datetime: format!("{self} - {other}")
try_sub(x, y) ==
    LET r == to_std(signed_duration_since(x, y))
    IN  IF r.ok
        THEN [ok |-> TRUE, val |-> r.val]
        ELSE [ok |-> FALSE, err |-> "ArithmeticNegativeOverflow",
              msg |-> <<Display(x), " - ", Display(y)>>]

\* chrono timestamp_nanos_opt: None outside the i64 range
timestamp_nanos_opt(x) ==
    IF Le(I64_MIN, x) /\ Le(x, I64_MAX)
    THEN [some |-> TRUE, val |-> x]
    ELSE [some |-> FALSE]

\* `as u64` on an i64: two's complement reinterpretation
as_u64(i) == IF i[1] < 0 THEN Add(i, TWO64) ELSE i

\* Datetime::to_u64
to_u64(x) ==
    LET o == timestamp_nanos_opt(x)
    IN  as_u64(IF o.some THEN o.val ELSE Zero)

\* instants the operators are evaluated on: the sentinels, the epoch, the
\* edges of the i64 and u64 nanosecond ranges, and two ordinary instants
Instants ==
    { MIN_UTC, MAX_UTC, Zero, N(1), N(-1), N(1500000), N(-1000),
      I64_MAX, Add(I64_MAX, N(1)), I64_MIN, Minus(I64_MIN, N(1)),
      U64_MAX, TWO64,
      <<1, 705312800, 0>>,       \* 2024-01-15T10:00:00Z
      <<1, 705309200, 0>> }      \* 2024-01-15T09:00:00Z

\* a call that has not been made yet, and one that returned r
NotCalled == [done |-> FALSE]

Returned(r) == [done |-> TRUE, ret |-> r]

InitDatetime ==
    /\ a \in Instants
    /\ b \in Instants
    /\ subRes = NotCalled
    /\ trySubRes = NotCalled
    /\ u64Res = NotCalled

Sub ==
    /\ subRes = NotCalled
    /\ subRes' = Returned(sub(a, b))
    /\ UNCHANGED <<a, b, trySubRes, u64Res, notDt>>

TrySub ==
    /\ trySubRes = NotCalled
    /\ trySubRes' = Returned(try_sub(a, b))
    /\ UNCHANGED <<a, b, subRes, u64Res, notDt>>

ToU64 ==
    /\ u64Res = NotCalled
    /\ u64Res' = Returned(to_u64(a))
    /\ UNCHANGED <<a, b, subRes, trySubRes, notDt>>

(***************************************************************************)
(* cnf/mod.rs: text, parsing and the initializer closures                  *)
(***************************************************************************)
\* the state of an environment variable as std::env::var sees it
NotPresent == [set |-> FALSE]

NotUnicode == [set |-> TRUE, utf8 |-> FALSE]

Text(s) == [set |-> TRUE, utf8 |-> TRUE, text |-> s]

IsText(v) == v.set /\ v.utf8

\* typed values of the limits
IntV(n) == [int |-> n]

BoolV(x) == [bool |-> x]

PathsV(p) == [paths |-> p]

Ok(x) == [ok |-> TRUE, val |-> x]

Err(e) == [ok |-> FALSE, err |-> e]

Digits == <<"0", "1", "2", "3", "4", "5", "6", "7", "8", "9">>

IsDigit(c) == \E i \in 1..10 : Digits[i] = c

DigitVal(c) == (CHOOSE i \in 1..10 : Digits[i] = c) - 1

\* core::num from_str_radix(_, 10), digit loop with the checked multiply-add
RECURSIVE ParseDigits(_, _, _)
ParseDigits(s, acc, max) ==
    IF s = <<>> THEN Ok(acc)
    ELSE IF ~IsDigit(Head(s)) THEN Err("InvalidDigit")
    ELSE LET n == Add(Mul10(acc), N(DigitVal(Head(s))))
         IN  IF Lt(max, n) THEN Err("PosOverflow")
             ELSE ParseDigits(Tail(s), n, max)

\* str::parse for an unsigned integer type with maximum max: no trimming,
\* an optional leading "+", a "-" is an invalid digit
ParseUnsigned(s, max) ==
    IF s = <<>> THEN Err("Empty")
    ELSE IF Len(s) = 1 /\ Head(s) \in {"+", "-"} THEN Err("InvalidDigit")
    ELSE ParseDigits(IF Head(s) = "+" THEN Tail(s) ELSE s, Zero, max)

\* str::parse::<bool>: exactly "true" or "false"
ParseBool(s) ==
    IF s = <<"t", "r", "u", "e">> THEN Ok(TRUE)
    ELSE IF s = <<"f", "a", "l", "s", "e">> THEN Ok(FALSE)
    ELSE Err("ParseBoolError")

\* s.parse::<$t>() for the declared types of the limits
Parse(ty, s) ==
    CASE ty = "u32"   -> LET r == ParseUnsigned(s, U32_MAX)
                         IN  IF r.ok THEN Ok(IntV(r.val)) ELSE r
      [] ty = "usize" -> LET r == ParseUnsigned(s, U64_MAX)
                         IN  IF r.ok THEN Ok(IntV(r.val)) ELSE r
      [] ty = "bool"  -> LET r == ParseBool(s)
                         IN  IF r.ok THEN Ok(BoolV(r.val)) ELSE r

\* lazy_env_parse!(key, ty, default): the environment variable parsed as ty
\* when it is set and parses, the default otherwise
lazy_env_parse(ty, default, v) ==
    IF IsText(v)
    THEN LET r == Parse(ty, v.text)
         IN  IF r.ok THEN r.val ELSE default
    ELSE default

\* 2usize.pow(n) for n < usize::BITS: directly up to 2^30, above that by
\* doubling from the nearest of 2^30, 2^45 and 2^60
RECURSIVE Pow2(_)
Pow2(n) ==
    IF n <= 30 THEN N(2^n)
    ELSE IF n = 45 THEN <<0, 35184, 372088832>>
    ELSE IF n = 60 THEN <<1, 152921504, 606846976>>
    ELSE Double(Pow2(n - 1))

\* usize::BITS
USIZE_BITS == 64

\* 2usize.pow(n): the product overflows usize from n = usize::BITS on; a
\* build with overflow checks panics there, a build without them wraps
\* (2^n mod 2^64 = 0)
usize_pow2(n) ==
    IF Lt(n, N(USIZE_BITS))
    THEN {Ok(IntV(Pow2(n[3])))}
    ELSE {[ok |-> FALSE, err |-> "attempt to multiply with overflow"],
          Ok(IntV(Zero))}

\* the end of the segment of s that starts after position i
RECURSIVE SegmentEnd(_, _)
SegmentEnd(s, i) ==
    IF i = Len(s) \/ s[i + 1] = ":" THEN i ELSE SegmentEnd(s, i + 1)

RECURSIVE SplitFrom(_, _)
SplitFrom(s, i) ==
    IF i >= Len(s) THEN <<>>
    ELSE IF s[i + 1] = ":" THEN SplitFrom(s, i + 1)
    ELSE <<SubSeq(s, i + 1, SegmentEnd(s, i))>> \o SplitFrom(s, SegmentEnd(s, i))

\* iam::file::extract_allowed_paths: the text split at ":", empty segments
\* skipped
extract_allowed_paths(s) == SplitFrom(s, 0)

\* ---- the statics; each takes the state of its environment variable and
\* ---- gives the set of outcomes of its initializer closure
MAX_CONCURRENT_TASKS(v) ==
    {Ok(lazy_env_parse("usize", IntV(N(64)), v))}

MAX_COMPUTATION_DEPTH(v) ==
    {Ok(lazy_env_parse("u32", IntV(N(120)), v))}

MAX_OBJECT_PARSING_DEPTH(v) ==
    {Ok(lazy_env_parse("u32", IntV(N(100)), v))}

MAX_QUERY_PARSING_DEPTH(v) ==
    {Ok(lazy_env_parse("u32", IntV(N(20)), v))}

REGEX_CACHE_SIZE(v) ==
    {Ok(lazy_env_parse("usize", IntV(N(1000)), v))}

TRANSACTION_CACHE_SIZE(v) ==
    {Ok(lazy_env_parse("usize", IntV(N(10000)), v))}

DATASTORE_CACHE_SIZE(v) ==
    {Ok(lazy_env_parse("usize", IntV(N(1000)), v))}

NORMAL_FETCH_SIZE(v) ==
    {Ok(lazy_env_parse("u32", IntV(N(50)), v))}

EXPORT_BATCH_SIZE(v) ==
    {Ok(lazy_env_parse("u32", IntV(N(1000)), v))}

MAX_STREAM_BATCH_SIZE(v) ==
    {Ok(lazy_env_parse("u32", IntV(N(1000)), v))}

INDEXING_BATCH_SIZE(v) ==
    {Ok(lazy_env_parse("u32", IntV(N(250)), v))}

SCRIPTING_MAX_STACK_SIZE(v) ==
    {Ok(lazy_env_parse("usize", IntV(N(256 * 1024)), v))}

SCRIPTING_MAX_MEMORY_LIMIT(v) ==
    {Ok(lazy_env_parse("usize", IntV(N(2 * 2^20)), v))}

SCRIPTING_MAX_TIME_LIMIT(v) ==
    {Ok(lazy_env_parse("usize", IntV(N(1000 * 5)), v))}

INSECURE_FORWARD_ACCESS_ERRORS(v) ==
    {Ok(lazy_env_parse("bool", BoolV(FALSE), v))}

EXTERNAL_SORTING_BUFFER_LIMIT(v) ==
    {Ok(lazy_env_parse("usize", IntV(N(50000)), v))}

GRAPHQL_ENABLE(v) ==
    {Ok(lazy_env_parse("bool", BoolV(FALSE), v))}

EXPERIMENTAL_BEARER_ACCESS(v) ==
    {Ok(lazy_env_parse("bool", BoolV(FALSE), v))}

MAX_HTTP_REDIRECTS(v) ==
    {Ok(lazy_env_parse("usize", IntV(N(10)), v))}

GENERATION_ALLOCATION_LIMIT(v) ==
    LET n == IF IsText(v)
             THEN LET r == ParseUnsigned(v.text, U32_MAX)
                  IN  IF r.ok THEN r.val ELSE N(20)
             ELSE N(20)
    IN  usize_pow2(n)

\* REGEX_SIZE_LIMIT with unwrap_or_default() on the failed parse
REGEX_SIZE_LIMIT_parse_default(v) ==
    {Ok(IF IsText(v)
        THEN LET r == Parse("usize", v.text)
             IN  IF r.ok THEN r.val ELSE IntV(Zero)
        ELSE IntV(N(10485760)))}

REGEX_SIZE_LIMIT(v) ==
    {Ok(IF IsText(v)
        THEN LET r == Parse("usize", v.text)
             IN  IF r.ok THEN r.val ELSE IntV(N(10485760))
        ELSE IntV(N(10485760)))}

\* IDIOM_RECURSION_LIMIT with unwrap_or_default() on the unset variable
IDIOM_RECURSION_LIMIT_unset_default(v) ==
    {Ok(IF IsText(v)
        THEN LET r == Parse("usize", v.text)
             IN  IF r.ok THEN r.val ELSE IntV(N(256))
        ELSE IntV(Zero))}

IDIOM_RECURSION_LIMIT(v) ==
    {Ok(IF IsText(v)
        THEN LET r == Parse("usize", v.text)
             IN  IF r.ok THEN r.val ELSE IntV(N(256))
        ELSE IntV(N(256)))}

FILE_ALLOWLIST(v) ==
    {Ok(IF IsText(v)
        THEN PathsV(extract_allowed_paths(v.text))
        ELSE PathsV(<<>>))}

\* the statics that go through lazy_env_parse!, and those written out
MacroLimits ==
    {"MAX_CONCURRENT_TASKS",
     "MAX_COMPUTATION_DEPTH",
     "MAX_OBJECT_PARSING_DEPTH",
     "MAX_QUERY_PARSING_DEPTH",
     "REGEX_CACHE_SIZE",
     "TRANSACTION_CACHE_SIZE",
     "DATASTORE_CACHE_SIZE",
     "NORMAL_FETCH_SIZE",
     "EXPORT_BATCH_SIZE",
     "MAX_STREAM_BATCH_SIZE",
     "INDEXING_BATCH_SIZE",
     "SCRIPTING_MAX_STACK_SIZE",
     "SCRIPTING_MAX_MEMORY_LIMIT",
     "SCRIPTING_MAX_TIME_LIMIT",
     "INSECURE_FORWARD_ACCESS_ERRORS",
     "EXTERNAL_SORTING_BUFFER_LIMIT",
     "GRAPHQL_ENABLE",
     "EXPERIMENTAL_BEARER_ACCESS",
     "MAX_HTTP_REDIRECTS"}

ClosureLimits ==
    {"GENERATION_ALLOCATION_LIMIT", "REGEX_SIZE_LIMIT",
     "IDIOM_RECURSION_LIMIT", "FILE_ALLOWLIST"}

Limits == MacroLimits \cup ClosureLimits

\* the declared type of each limit
TypeOf(l) ==
    CASE l \in {"MAX_CONCURRENT_TASKS", "REGEX_CACHE_SIZE", "TRANSACTION_CACHE_SIZE", "DATASTORE_CACHE_SIZE", "SCRIPTING_MAX_STACK_SIZE", "SCRIPTING_MAX_MEMORY_LIMIT", "SCRIPTING_MAX_TIME_LIMIT", "EXTERNAL_SORTING_BUFFER_LIMIT", "MAX_HTTP_REDIRECTS",
               "REGEX_SIZE_LIMIT", "IDIOM_RECURSION_LIMIT"} -> "usize"
      [] l \in {"MAX_COMPUTATION_DEPTH", "MAX_OBJECT_PARSING_DEPTH", "MAX_QUERY_PARSING_DEPTH", "NORMAL_FETCH_SIZE", "EXPORT_BATCH_SIZE", "MAX_STREAM_BATCH_SIZE", "INDEXING_BATCH_SIZE",
               "GENERATION_ALLOCATION_LIMIT"} -> "u32"
      [] l \in {"INSECURE_FORWARD_ACCESS_ERRORS", "GRAPHQL_ENABLE", "EXPERIMENTAL_BEARER_ACCESS"} -> "bool"
      [] l = "FILE_ALLOWLIST" -> "paths"

\* the initializer closure of limit l applied to its variable's state
Initializer(l, v) ==
    CASE l = "MAX_CONCURRENT_TASKS" -> MAX_CONCURRENT_TASKS(v)
      [] l = "MAX_COMPUTATION_DEPTH" -> MAX_COMPUTATION_DEPTH(v)
      [] l = "MAX_OBJECT_PARSING_DEPTH" -> MAX_OBJECT_PARSING_DEPTH(v)
      [] l = "MAX_QUERY_PARSING_DEPTH" -> MAX_QUERY_PARSING_DEPTH(v)
      [] l = "REGEX_CACHE_SIZE" -> REGEX_CACHE_SIZE(v)
      [] l = "TRANSACTION_CACHE_SIZE" -> TRANSACTION_CACHE_SIZE(v)
      [] l = "DATASTORE_CACHE_SIZE" -> DATASTORE_CACHE_SIZE(v)
      [] l = "NORMAL_FETCH_SIZE" -> NORMAL_FETCH_SIZE(v)
      [] l = "EXPORT_BATCH_SIZE" -> EXPORT_BATCH_SIZE(v)
      [] l = "MAX_STREAM_BATCH_SIZE" -> MAX_STREAM_BATCH_SIZE(v)
      [] l = "INDEXING_BATCH_SIZE" -> INDEXING_BATCH_SIZE(v)
      [] l = "SCRIPTING_MAX_STACK_SIZE" -> SCRIPTING_MAX_STACK_SIZE(v)
      [] l = "SCRIPTING_MAX_MEMORY_LIMIT" -> SCRIPTING_MAX_MEMORY_LIMIT(v)
      [] l = "SCRIPTING_MAX_TIME_LIMIT" -> SCRIPTING_MAX_TIME_LIMIT(v)
      [] l = "INSECURE_FORWARD_ACCESS_ERRORS" -> INSECURE_FORWARD_ACCESS_ERRORS(v)
      [] l = "EXTERNAL_SORTING_BUFFER_LIMIT" -> EXTERNAL_SORTING_BUFFER_LIMIT(v)
      [] l = "GRAPHQL_ENABLE" -> GRAPHQL_ENABLE(v)
      [] l = "EXPERIMENTAL_BEARER_ACCESS" -> EXPERIMENTAL_BEARER_ACCESS(v)
      [] l = "MAX_HTTP_REDIRECTS" -> MAX_HTTP_REDIRECTS(v)
      [] l = "GENERATION_ALLOCATION_LIMIT" -> GENERATION_ALLOCATION_LIMIT(v)
      [] l = "REGEX_SIZE_LIMIT" -> REGEX_SIZE_LIMIT(v)
      [] l = "IDIOM_RECURSION_LIMIT" -> IDIOM_RECURSION_LIMIT(v)
      [] l = "FILE_ALLOWLIST" -> FILE_ALLOWLIST(v)

\* texts an environment variable is set to
Texts ==
    { <<>>,
      <<"a", "b", "c">>,
      <<"-", "1">>,
      <<"+", "7">>,
      <<"+">>,
      <<" ", "5">>,
      <<"0">>,
      <<"5">>,
      <<"0", "0", "7">>,
      <<"6", "3">>,
      <<"6", "4">>,
      <<"1", "e", "3">>,
      <<"t", "r", "u", "e">>,
      <<"f", "a", "l", "s", "e">>,
      <<"T", "r", "u", "e">>,
      <<"4", "2", "9", "4", "9", "6", "7", "2", "9", "5">>,
      <<"4", "2", "9", "4", "9", "6", "7", "2", "9", "6">>,
      <<"1", "8", "4", "4", "6", "7", "4", "4", "0", "7", "3", "7", "0", "9",
        "5", "5", "1", "6", "1", "5">>,
      <<"1", "8", "4", "4", "6", "7", "4", "4", "0", "7", "3", "7", "0", "9",
        "5", "5", "1", "6", "1", "6">>,
      <<"/", "a", ":", ":", "/", "b">> }

VarStates == {NotPresent, NotUnicode} \cup {Text(s) : s \in Texts}

InitResolve ==
    /\ rlim \in Limits
    /\ rtext \in VarStates
    /\ rout = NotCalled

\* the first access to rlim: its initializer closure runs on its variable
Resolve ==
    /\ rout = NotCalled
    /\ \E o \in Initializer(rlim, rtext) : rout' = Returned(o)
    /\ UNCHANGED <<rlim, rtext, notRes>>

(***************************************************************************)
(* cnf/mod.rs: the LazyLock statics shared by the engine's threads         *)
(***************************************************************************)
\* threads of the engine, derefs of a static in one run, changes of the
\* environment in one run
NThreads == 2
MaxDerefs == 2
MaxEnvOps == 1

Threads == 1..NThreads

\* the statics followed under concurrency: the four written-out closures
Shared == ClosureLimits

\* every closure reading the variable of the regex size limit
EnvKey_pasted(l) == "SURREAL_REGEX_SIZE_LIMIT"

\* the name each closure passes to std::env::var
EnvKey(l) ==
    CASE l = "GENERATION_ALLOCATION_LIMIT" -> "SURREAL_GENERATION_ALLOCATION_LIMIT"
      [] l = "REGEX_SIZE_LIMIT"            -> "SURREAL_REGEX_SIZE_LIMIT"
      [] l = "IDIOM_RECURSION_LIMIT"       -> "SURREAL_IDIOM_RECURSION_LIMIT"
      [] l = "FILE_ALLOWLIST"              -> "SURREAL_FILE_ALLOWLIST"

\* the variables of the environment that these closures concern
Keys ==
    {"SURREAL_GENERATION_ALLOCATION_LIMIT", "SURREAL_REGEX_SIZE_LIMIT",
     "SURREAL_IDIOM_RECURSION_LIMIT", "SURREAL_FILE_ALLOWLIST"}

\* what a change of the environment makes of a variable
SharedStates == {NotPresent, Text(<<"6", "4">>)}

Uninit == [state |-> "Uninit"]

Running == [state |-> "Running"]

Poisoned == [state |-> "Poisoned"]

Complete(x) == [state |-> "Complete", val |-> x]

Idle == [pc |-> "idle"]

\* a deref of a static returned x: how the caller got it ("init": it ran the
\* initializer, "wait": it blocked on the running initializer, "read": the
\* cell was complete), and after how many changes of the environment
Got(x, how) == [done |-> TRUE, ret |-> x, via |-> how, ops |-> envOps]

\* the process is started with the variables unset, or with each set to a
\* text that is no number
StartStates == {NotPresent, Text(<<"a", "b", "c">>)}

InitCnf ==
    /\ env \in {[k \in Keys |-> v] : v \in StartStates}
    /\ cell = [l \in Shared |-> Uninit]
    /\ thr = [t \in Threads |-> Idle]
    /\ seen = [t \in Threads |-> [l \in Shared |-> NotCalled]]
    /\ initRuns = [l \in Shared |-> 0]
    /\ envReads = [k \in Keys |-> 0]
    /\ snap = [l \in Shared |-> NotCalled]
    /\ envOps = 0
    /\ derefs = 0

\* a cell without the Once: a caller that finds the initializer running runs
\* it as well
MayRunInitializer_racy(l) == cell[l].state \in {"Uninit", "Running"}

\* a cell without the memo: a caller that finds the value runs the
\* initializer again
MayRunInitializer_unmemoized(l) == cell[l].state \in {"Uninit", "Complete"}

\* std::sync::Once inside LazyLock: only the caller that finds the cell
\* uninitialized runs the initializer
MayRunInitializer(l) == cell[l].state = "Uninit"

\* LazyLock::force stores the closure's value in the cell of its own static
Publish(l, x) == [cell EXCEPT ![l] = Complete(x)]

\* a thread dereferences the static l
Deref(t, l) ==
    /\ thr[t].pc = "idle"
    /\ derefs < MaxDerefs
    /\ derefs' = derefs + 1
    /\ \/ /\ MayRunInitializer(l)
          /\ cell' = [cell EXCEPT ![l] = Running]
          /\ thr' = [thr EXCEPT ![t] = [pc |-> "init", lim |-> l]]
          /\ UNCHANGED seen
       \/ /\ cell[l].state = "Running"
          /\ thr' = [thr EXCEPT ![t] = [pc |-> "wait", lim |-> l]]
          /\ UNCHANGED <<cell, seen>>
       \/ /\ cell[l].state = "Complete"
          /\ seen' = [seen EXCEPT ![t][l] = Got(cell[l].val, "read")]
          /\ UNCHANGED <<cell, thr>>
       \/ /\ cell[l].state = "Poisoned"
          /\ thr' = [thr EXCEPT ![t] = [pc |-> "panicked", lim |-> l]]
          /\ UNCHANGED <<cell, seen>>
    /\ UNCHANGED <<env, initRuns, envReads, snap, envOps, notCnf>>

\* the initializing thread runs the closure: one read of the variable, then
\* the value is stored, or the panic poisons the cell
RunInit(t) ==
    /\ thr[t].pc = "init"
    /\ LET l == thr[t].lim
           k == EnvKey(l)
       IN  /\ initRuns' = [initRuns EXCEPT ![l] = @ + 1]
           /\ envReads' = [envReads EXCEPT ![k] = @ + 1]
           /\ snap' = [snap EXCEPT ![l] = [done |-> TRUE, var |-> env[k], ops |-> envOps]]
           /\ \E o \in Initializer(l, env[k]) :
                \/ /\ o.ok
                   /\ cell' = Publish(l, o.val)
                   /\ seen' = [seen EXCEPT ![t][l] = Got(o.val, "init")]
                   /\ thr' = [thr EXCEPT ![t] = Idle]
                \/ /\ ~o.ok
                   /\ cell' = [cell EXCEPT ![l] = Poisoned]
                   /\ thr' = [thr EXCEPT ![t] = [pc |-> "panicked", lim |-> l]]
                   /\ UNCHANGED seen
    /\ UNCHANGED <<env, envOps, derefs, notCnf>>

\* a thread blocked on the Once resumes when the initializer has ended
Wake(t) ==
    /\ thr[t].pc = "wait"
    /\ LET l == thr[t].lim
       IN  \/ /\ cell[l].state = "Complete"
              /\ seen' = [seen EXCEPT ![t][l] = Got(cell[l].val, "wait")]
              /\ thr' = [thr EXCEPT ![t] = Idle]
           \/ /\ cell[l].state = "Poisoned"
              /\ thr' = [thr EXCEPT ![t] = [pc |-> "panicked", lim |-> l]]
              /\ UNCHANGED seen
    /\ UNCHANGED <<env, cell, initRuns, envReads, snap, envOps, derefs, notCnf>>

\* the environment is changed while the process runs (std::env::set_var)
SetVar(k, v) ==
    /\ envOps < MaxEnvOps
    /\ v # NotPresent
    /\ env[k] # v
    /\ env' = [env EXCEPT ![k] = v]
    /\ envOps' = envOps + 1
    /\ UNCHANGED <<cell, thr, seen, initRuns, envReads, snap, derefs, notCnf>>

\* std::env::remove_var
RemoveVar(k) ==
    /\ envOps < MaxEnvOps
    /\ env[k] # NotPresent
    /\ env' = [env EXCEPT ![k] = NotPresent]
    /\ envOps' = envOps + 1
    /\ UNCHANGED <<cell, thr, seen, initRuns, envReads, snap, derefs, notCnf>>

(***************************************************************************)
(* #[revisioned(revision = 1)] on Datetime: the decoder                    *)
(***************************************************************************)
\* a decoder that takes the next revision for known
DATETIME_REVISION_next == 1 + 1

\* the revision the attribute declares: the decoder's maximum known revision
DATETIME_REVISION == 1

MaxWireRevision == 3
MaxPayload == 3

Bytes == {0, 1, 255}

RECURSIVE SeqsUpTo(_)
SeqsUpTo(n) ==
    IF n = 0 THEN {<<>>}
    ELSE LET shorter == SeqsUpTo(n - 1)
         IN  shorter \cup {Append(q, x) : q \in shorter, x \in Bytes}

\* the revision number is read first; a revision above the maximum known one
\* is refused there, a known one has its fields read
deserialize_revisioned(w) ==
    LET revision == Head(w)
        fields == Tail(w)
    IN  IF revision > DATETIME_REVISION
        THEN [res |-> Err("UnsupportedRevision"), read |-> 1]
        ELSE IF fields = <<>>
        THEN [res |-> Err("Deserialize"), read |-> 1]
        ELSE [res |-> Ok(fields), read |-> Len(w)]

InitCodec ==
    /\ wire \in {<<r>> \o q : r \in 1..MaxWireRevision, q \in SeqsUpTo(MaxPayload)}
    /\ decRes = NotCalled
    /\ consumed = 0

Decode ==
    /\ decRes = NotCalled
    /\ decRes' = Returned(deserialize_revisioned(wire).res)
    /\ consumed' = deserialize_revisioned(wire).read
    /\ UNCHANGED <<wire, notCodec>>

(***************************************************************************)
(* Specifications                                                          *)
(***************************************************************************)
RestDatetime ==
    /\ a = Zero /\ b = Zero
    /\ subRes = NotCalled /\ trySubRes = NotCalled /\ u64Res = NotCalled

RestResolve ==
    /\ rlim = "REGEX_SIZE_LIMIT" /\ rtext = NotPresent /\ rout = NotCalled

RestCnf ==
    /\ env = [k \in Keys |-> NotPresent]
    /\ cell = [l \in Shared |-> Uninit]
    /\ thr = [t \in Threads |-> Idle]
    /\ seen = [t \in Threads |-> [l \in Shared |-> NotCalled]]
    /\ initRuns = [l \in Shared |-> 0]
    /\ envReads = [k \in Keys |-> 0]
    /\ snap = [l \in Shared |-> NotCalled]
    /\ envOps = 0
    /\ derefs = 0

RestCodec ==
    /\ wire = <<1>> /\ decRes = NotCalled /\ consumed = 0

\* the shared statics under threads and a changing environment
Init == InitCnf /\ RestDatetime /\ RestResolve /\ RestCodec

Next ==
    \/ \E t \in Threads, l \in Shared : Deref(t, l)
    \/ \E t \in Threads : RunInit(t)
    \/ \E t \in Threads : Wake(t)
    \/ \E k \in Keys, v \in SharedStates : SetVar(k, v)
    \/ \E k \in Keys : RemoveVar(k)

Spec == Init /\ [][Next]_vars

\* the Datetime operators on a pair of instants
InitDt == InitDatetime /\ RestResolve /\ RestCnf /\ RestCodec

NextDt == Sub \/ TrySub \/ ToU64

SpecDatetime == InitDt /\ [][NextDt]_vars

\* one limit's initializer on one state of its variable
InitRes == InitResolve /\ RestDatetime /\ RestCnf /\ RestCodec

NextRes == Resolve

SpecResolve == InitRes /\ [][NextRes]_vars

\* the decoder on one encoded value
InitDec == InitCodec /\ RestDatetime /\ RestResolve /\ RestCnf

NextDec == Decode

SpecCodec == InitDec /\ [][NextDec]_vars

(***************************************************************************)
(* Properties: sql/datetime.rs                                             *)
(***************************************************************************)
\* C1: for all instants a >= b (a = b and the sentinels MIN_UTC, MAX_UTC
\* included) try_sub(a, b) is Ok(d) and d is the Duration a - b returns.
C1_TrySubAgreesWithSub ==
    (subRes.done /\ trySubRes.done /\ Le(b, a)) =>
        /\ trySubRes.ret.ok
        /\ trySubRes.ret.val = subRes.ret

\* both operators have run on the widest pair, MAX_UTC - MIN_UTC
C1_Witness ==
    /\ a = MAX_UTC /\ b = MIN_UTC
    /\ subRes.done /\ trySubRes.done
    /\ trySubRes.ret.ok
    /\ subRes.ret = <<16544, 868191999, 999999999>>

\* C2: for all instants a < b try_sub(a, b) is Err(ArithmeticNegativeOverflow)
\* whose message is the display of a, " - ", the display of b, in that order,
\* and a - b is the zero Duration.
C2_NegativeOverflow ==
    (subRes.done /\ trySubRes.done /\ Lt(a, b)) =>
        /\ ~trySubRes.ret.ok
        /\ trySubRes.ret.err = "ArithmeticNegativeOverflow"
        /\ trySubRes.ret.msg =
             << <<"d", [quoted |-> to_raw(a)]>>, " - ",
                <<"d", [quoted |-> to_raw(b)]>> >>
        /\ subRes.ret = <<0, 0, 0>>

\* 2024-01-15T09:00:00Z - 2024-01-15T10:00:00Z has failed in try_sub
C2_Witness ==
    /\ a = <<1, 705309200, 0>> /\ b = <<1, 705312800, 0>>
    /\ subRes.done /\ trySubRes.done
    /\ ~trySubRes.ret.ok

\* C8: to_u64 never fails and returns the exact count of nanoseconds since
\* the epoch when that count is representable as a u64, and 0 for every
\* instant whose count is not (too far from the epoch, or before it).
C8_ExactOrZero ==
    u64Res.done =>
        IF Le(Zero, a) /\ Le(a, U64_MAX)
        THEN u64Res.ret = a
        ELSE u64Res.ret = Zero

(***************************************************************************)
(* Properties: cnf/mod.rs, one initializer                                 *)
(***************************************************************************)
\* the defaults as the specification's table of limits documents them (the
\* two experimental switches are off unless enabled)
DocumentedDefault(l) ==
    CASE l = "MAX_CONCURRENT_TASKS"           -> IntV(<<0, 0, 64>>)
      [] l = "MAX_COMPUTATION_DEPTH"          -> IntV(<<0, 0, 120>>)
      [] l = "MAX_OBJECT_PARSING_DEPTH"       -> IntV(<<0, 0, 100>>)
      [] l = "MAX_QUERY_PARSING_DEPTH"        -> IntV(<<0, 0, 20>>)
      [] l = "REGEX_CACHE_SIZE"               -> IntV(<<0, 0, 1000>>)
      [] l = "TRANSACTION_CACHE_SIZE"         -> IntV(<<0, 0, 10000>>)
      [] l = "DATASTORE_CACHE_SIZE"           -> IntV(<<0, 0, 1000>>)
      [] l = "NORMAL_FETCH_SIZE"              -> IntV(<<0, 0, 50>>)
      [] l = "EXPORT_BATCH_SIZE"              -> IntV(<<0, 0, 1000>>)
      [] l = "MAX_STREAM_BATCH_SIZE"          -> IntV(<<0, 0, 1000>>)
      [] l = "INDEXING_BATCH_SIZE"            -> IntV(<<0, 0, 250>>)
      [] l = "SCRIPTING_MAX_STACK_SIZE"       -> IntV(<<0, 0, 262144>>)
      [] l = "SCRIPTING_MAX_MEMORY_LIMIT"     -> IntV(<<0, 0, 2097152>>)
      [] l = "SCRIPTING_MAX_TIME_LIMIT"       -> IntV(<<0, 0, 5000>>)
      [] l = "INSECURE_FORWARD_ACCESS_ERRORS" -> BoolV(FALSE)
      [] l = "EXTERNAL_SORTING_BUFFER_LIMIT"  -> IntV(<<0, 0, 50000>>)
      [] l = "GRAPHQL_ENABLE"                 -> BoolV(FALSE)
      [] l = "EXPERIMENTAL_BEARER_ACCESS"     -> BoolV(FALSE)
      [] l = "MAX_HTTP_REDIRECTS"             -> IntV(<<0, 0, 10>>)
      [] l = "GENERATION_ALLOCATION_LIMIT"    -> IntV(<<0, 0, 1048576>>)
      [] l = "REGEX_SIZE_LIMIT"               -> IntV(<<0, 0, 10485760>>)
      [] l = "IDIOM_RECURSION_LIMIT"          -> IntV(<<0, 0, 256>>)
      [] l = "FILE_ALLOWLIST"                 -> PathsV(<<>>)

\* C5: a limit whose variable is unset at its first access resolves to
\* exactly its documented default.
C5_UnsetGivesDefault ==
    (rout.done /\ rtext = NotPresent) =>
        rout.ret = [ok |-> TRUE, val |-> DocumentedDefault(rlim)]

\* the idiom recursion limit has been resolved with its variable unset
C5_Witness ==
    /\ rlim = "IDIOM_RECURSION_LIMIT" /\ rtext = NotPresent
    /\ rout.done
    /\ rout.ret.val = [int |-> <<0, 0, 256>>]

\* what the text of rtext parses to as the declared type of rlim
ParsedAsDeclared == Parse(TypeOf(rlim), rtext.text)

\* the limit is one of a parsed type (the allow-list takes any text)
TypedLimit == TypeOf(rlim) # "paths"

\* C6 as stated: text that does not parse as the declared type resolves to
\* the default, without error, and text that parses resolves to the parsed
\* value.
C6_AsStated ==
    (rout.done /\ IsText(rtext) /\ TypedLimit) =>
        IF ParsedAsDeclared.ok
        THEN rout.ret = [ok |-> TRUE, val |-> ParsedAsDeclared.val]
        ELSE rout.ret = [ok |-> TRUE, val |-> DocumentedDefault(rlim)]

\* C6, amended: text that does not parse as the declared type (and a value
\* that is not Unicode) resolves to the default, without error; text that
\* parses resolves to the parsed value for every limit but the generation
\* allocation limit, which resolves to 2^n for the parsed n < 64 and, for
\* n >= 64, panics or wraps to 0.
C6_MalformedGivesDefault ==
    /\ (rout.done /\ rtext = NotUnicode) =>
           rout.ret = [ok |-> TRUE, val |-> DocumentedDefault(rlim)]
    /\ (rout.done /\ IsText(rtext) /\ TypedLimit) =>
           IF ~ParsedAsDeclared.ok
           THEN rout.ret = [ok |-> TRUE, val |-> DocumentedDefault(rlim)]
           ELSE IF rlim # "GENERATION_ALLOCATION_LIMIT"
           THEN rout.ret = [ok |-> TRUE, val |-> ParsedAsDeclared.val]
           ELSE IF Lt(ParsedAsDeclared.val.int, <<0, 0, 64>>)
           THEN rout.ret =
                  [ok |-> TRUE, val |-> IntV(Pow2(ParsedAsDeclared.val.int[3]))]
           ELSE \/ ~rout.ret.ok
                \/ rout.ret = [ok |-> TRUE, val |-> IntV(<<0, 0, 0>>)]

\* the regex size limit has been resolved with its variable set to "-1"
C6_Witness ==
    /\ rlim = "REGEX_SIZE_LIMIT" /\ rtext = Text(<<"-", "1">>)
    /\ rout.done
    /\ rout.ret = [ok |-> TRUE, val |-> [int |-> <<0, 0, 10485760>>]]

\* C7: resolving the generation allocation limit is never fatal: for every
\* state of its variable it returns a value, 2^n for a parsed exponent n
\* and 2^20 otherwise (2^n >= 2^64 for n >= 64).
C7_NeverFatal ==
    (rout.done /\ rlim = "GENERATION_ALLOCATION_LIMIT") =>
        /\ rout.ret.ok
        /\ LET p == IF IsText(rtext) THEN ParseUnsigned(rtext.text, U32_MAX)
                                     ELSE [ok |-> FALSE]
           IN  IF ~p.ok THEN rout.ret.val = [int |-> <<0, 0, 1048576>>]
               ELSE IF Lt(p.val, <<0, 0, 64>>)
               THEN rout.ret.val = [int |-> Pow2(p.val[3])]
               ELSE Le(TWO64, rout.ret.val.int)

(***************************************************************************)
(* Properties: cnf/mod.rs, the statics under threads                       *)
(***************************************************************************)
\* C3: once a limit has been read, every later read returns the same value
\* whatever happens to its variable, which is read at most once and never
\* after the resolution.
C3_ResolvedOnce ==
    /\ [][\A l \in Shared :
            cell[l].state = "Complete" =>
                /\ cell'[l] = cell[l]
                /\ envReads'[EnvKey(l)] = envReads[EnvKey(l)]]_vars
    /\ [](\A t \in Threads, l \in Shared :
            seen[t][l].done =>
                cell[l].state = "Complete" /\ seen[t][l].ret = cell[l].val)
    /\ [](\A k \in Keys : envReads[k] <= 1)

\* a limit resolved with its variable unset is read again after the
\* variable was set, and the read returns the value of the resolution
C3_Witness ==
    \E t \in Threads, l \in Shared :
        /\ snap[l].done /\ snap[l].var = NotPresent /\ snap[l].ops = 0
        /\ envOps = 1 /\ env[EnvKey(l)] = Text(<<"6", "4">>)
        /\ seen[t][l].done /\ seen[t][l].via = "read" /\ seen[t][l].ops = 1
        /\ seen[t][l].ret = DocumentedDefault(l)

\* C4: when threads make the first access to a limit concurrently the
\* initializer runs at most once and all of them get one and the same value.
C4_OneInitializerOneValue ==
    \A l \in Shared :
        /\ initRuns[l] <= 1
        /\ \A t1, t2 \in Threads :
              (seen[t1][l].done /\ seen[t2][l].done) =>
                  seen[t1][l].ret = seen[t2][l].ret

\* one thread ran the initializer, the other blocked on it, the variable was
\* changed meanwhile, and both hold the same value
C4_Witness ==
    \E t1, t2 \in Threads, l \in Shared :
        /\ seen[t1][l].done /\ seen[t1][l].via = "init"
        /\ seen[t2][l].done /\ seen[t2][l].via = "wait"
        /\ snap[l].ops = 0 /\ seen[t2][l].ops = 1
        /\ env[EnvKey(l)] # snap[l].var
        /\ seen[t1][l].ret = seen[t2][l].ret

\* the variable of each limit: the prefix SURREAL_ and the limit's name
PatternKey(l) ==
    CASE l = "GENERATION_ALLOCATION_LIMIT" -> "SURREAL_GENERATION_ALLOCATION_LIMIT"
      [] l = "REGEX_SIZE_LIMIT"            -> "SURREAL_REGEX_SIZE_LIMIT"
      [] l = "IDIOM_RECURSION_LIMIT"       -> "SURREAL_IDIOM_RECURSION_LIMIT"
      [] l = "FILE_ALLOWLIST"              -> "SURREAL_FILE_ALLOWLIST"

\* C10: limits are resolved independently and lazily: the step that resolves
\* a limit reads only that limit's variable, gives it the value the
\* environment of that moment determines, and leaves every other limit as
\* it was; no step touches a limit that no thread is dereferencing.
C10_IndependentLazy ==
    [][\A l \in Shared :
          /\ cell'[l] # cell[l] =>
                /\ \A m \in Shared \ {l} : cell'[m] = cell[m]
                /\ \E t \in Threads :
                      \/ (thr[t].pc = "init" /\ thr[t].lim = l)
                      \/ (thr'[t].pc = "init" /\ thr'[t].lim = l)
          /\ (cell[l].state # "Complete" /\ cell'[l].state = "Complete") =>
                /\ [ok |-> TRUE, val |-> cell'[l].val]
                       \in Initializer(l, env[PatternKey(l)])
                /\ envReads' = [envReads EXCEPT ![PatternKey(l)] = @ + 1]]_vars

\* the idiom recursion limit was resolved to its default before the
\* variable of the regex size limit was set; the regex size limit, first
\* read after that, has the value of its variable
C10_Witness ==
    /\ cell["IDIOM_RECURSION_LIMIT"] = Complete([int |-> <<0, 0, 256>>])
    /\ snap["IDIOM_RECURSION_LIMIT"].ops = 0
    /\ snap["REGEX_SIZE_LIMIT"].done /\ snap["REGEX_SIZE_LIMIT"].ops = 1
    /\ snap["REGEX_SIZE_LIMIT"].var = Text(<<"6", "4">>)
    /\ cell["REGEX_SIZE_LIMIT"] = Complete([int |-> <<0, 0, 64>>])

(***************************************************************************)
(* Properties: the revisioned decoder                                      *)
(***************************************************************************)
\* C9: decoding an encoded Datetime whose declared revision is greater than
\* 1 fails with the unsupported-revision error and reads nothing after the
\* revision number.
C9_UnsupportedRevision ==
    (decRes.done /\ Head(wire) > 1) =>
        /\ decRes.ret = [ok |-> FALSE, err |-> "UnsupportedRevision"]
        /\ consumed = 1

\* an encoded value of revision 2 with fields after it has been refused
C9_Witness ==
    /\ decRes.done /\ Head(wire) = 2 /\ Len(wire) > 1
    /\ ~decRes.ret.ok

====
